---- MODULE Spec2Model ----
(***************************************************************************)
(* Model of the ultrasound dictation PoC: the STT worker subprocess       *)
(* (core/stt_process.py), its capture callback, and the display side      *)
(* (ui/main_window.py) that starts, stops and polls it.                   *)
(*                                                                         *)
(* Strings are sequences of one-character strings.  Audio chunks are      *)
(* records [id, len, amp]: `len` samples that all have absolute amplitude *)
(* amp/1000, so that sum(len) and sqrt(mean(square)) are computed exactly.*)
(***************************************************************************)
EXTENDS Integers, Sequences, FiniteSets, TLC

\* ------------------------------------------------------------------ bounds
NumSlots  == 2      \* worker processes that can exist at the same time
MaxChunks == 2      \* chunks the capture device delivers in one run
MaxLevels == 1      \* audio_level reports in one run
MaxSegs   == 2      \* segments one transcribe() call returns
MaxTerms  == 2      \* terms in a dictionary file
MaxCalls  == 2      \* correct() calls made on one corrector
MaxEscapes == 1     \* polls that end with an escaping exception in one run
MaxCapCalls == 4    \* calls made on one AudioCapture object

\* ------------------------------------------------------- program constants
SampleRate       == 16000   \* cfg sample_rate
MinSecondsTenths == 25      \* cfg min_seconds = 2.5
EnergyThousandths == 5      \* cfg energy_threshold = 0.005

target_samples == (SampleRate * MinSecondsTenths) \div 10

None == 0     \* no worker / no queue
Workers == 1..NumSlots

\* Inputs of the capture device: chunk lengths and amplitudes (in 1/1000).
ChunkLens == {1, 39999, 40000}
ChunkAmps == {4, 5}

\* Segments the STT engine may return: seg.text is None, "", " " or " a ".
Seg(t) == [none |-> FALSE, text |-> t]
NoTextSeg == [none |-> TRUE, text |-> <<>>]
SegTexts == {NoTextSeg, Seg(<<>>), Seg(<<" ">>), Seg(<<" ", "a", " ">>)}
NoSegments == <<[none |-> TRUE, text |-> <<"?">>]>>   \* `segments` not bound

RECURSIVE SeqsUpTo(_, _)
SeqsUpTo(S, n) ==
    IF n = 0 THEN {<<>>}
    ELSE LET shorter == SeqsUpTo(S, n - 1)
         IN  shorter \cup {Append(s, x) : s \in {t \in shorter : Len(t) = n - 1}, x \in S}

SegChoices == SeqsUpTo(SegTexts, MaxSegs)

VARIABLES
    \* ---- display (MainWindow)
    stt_proc,       \* self._stt_proc : worker id or None
    ui_out_q,       \* self._out_q    : id of the queue object or None
    ui_ctrl_q,      \* self._ctrl_q   : id of the queue object or None
    ui_pc,          \* "idle" | "joining" (inside join(timeout=3)) | "closed"
    ui_caller,      \* who called _stop_stt_process: "toggle" | "reset" | "close"
    status_label,   \* text of the status label
    text_live,      \* lines appended to the live pane
    text_edit,      \* lines appended to the editable pane
    notified,       \* QMessageBox.critical notifications shown since the last start
    unshown,        \* positions, in the handled messages, of the Errors whose handling
                    \* raised before the notification was shown, since the last start
    escaped,        \* number of polls that ended with an exception leaving the slot
    \* ---- channels, one pair per created worker
    out_q,          \* out_q[w]  : messages in flight worker -> display
    ctrl_q,         \* ctrl_q[w] : commands in flight display -> worker
    \* ---- worker processes
    pc,             \* pc[w] : position of worker w in stt_worker_main
    stream,         \* stream[w] : "none" | "open" | "closed" | "unclosed" | "aborted"
    audio_q,        \* audio_q[w] : chunks queued by the capture callback
    buffer,         \* buffer[w]  : the accumulator
    audio,          \* audio[w]   : utterance handed to the running STT call
    segments,       \* segments[w] : what model.transcribe returned
    last_rms,       \* last_rms[w] : amplitude of the last captured chunk
    ok_count,
    empty_count,
    \* ---- capture device and clock
    nchunks,        \* chunks delivered so far
    nlevels,        \* audio_level reports so far
    \* ---- observation (history) variables
    emitted,        \* emitted[w] : every message the worker in slot w put, in order
    handled,        \* handled[w] : every message the display took from its out_q
    gate_log,       \* every gated buffer: [w, ids, n, accepted]
    fault,          \* fault[w] : the fatal fault the worker in slot w met, or "none"
    \* ---- correction engine
    file,           \* the dictionary file given to TermCorrector.load
    corrector,      \* self.corrector : <<>> (none yet) or <<the TermCorrector>>
    load_error,     \* TermCorrector.load raised
    calls,          \* the correct() calls made on it by a test driver: [text, result]
    \* ---- AudioCapture (core/audio_capture.py), one object
    cap_running,    \* self._running
    cap_stream,     \* self.stream : "none" | "created" | "started" | "stopped"
    cap_open,       \* input streams constructed and not closed
    cap_q,          \* self.q : the chunks the callback queued
    cap_calls       \* the calls made on the object and how each ended: [op, result]

ui_vars == <<stt_proc, ui_out_q, ui_ctrl_q, ui_pc, ui_caller, status_label,
             text_live, text_edit, notified, unshown, escaped>>
w_vars  == <<pc, stream, audio_q, buffer, audio, segments, last_rms, ok_count, empty_count>>
e_vars == <<file, corrector, load_error, calls>>
c_vars == <<cap_running, cap_stream, cap_open, cap_q, cap_calls>>
vars == <<ui_vars, out_q, ctrl_q, w_vars, nchunks, nlevels,
          emitted, handled, gate_log, fault, e_vars, c_vars>>

worker_frame == <<stream, audio_q, buffer, audio, segments, last_rms, ok_count, empty_count>>
obs_frame == <<emitted, handled, gate_log, fault>>

\* --------------------------------------------------------------- messages
Msg(t, m, n, s) == [type |-> t, msg |-> m, n |-> n, text |-> s]
Status(m, n)  == Msg("status", m, n, <<>>)
Error(m)      == Msg("error", m, 0, <<>>)
AudioLevel(r) == Msg("audio_level", "", r, <<>>)
Text(s)       == Msg("text", "", 0, s)

Alive(w) == pc[w] \notin {"unborn", "exited", "killed"}

\* out_q.put(m) by worker w, for a sequence of puts made in one step
Put(w, ms) ==
    /\ out_q' = [out_q EXCEPT ![w] = @ \o ms]
    /\ emitted' = [emitted EXCEPT ![w] = @ \o ms]

\* ------------------------------------------------------ pure worker helpers
RECURSIVE SumLen(_)
SumLen(b) == IF b = <<>> THEN 0 ELSE Head(b).len + SumLen(Tail(b))

RECURSIVE SumSq(_)
SumSq(b) == IF b = <<>> THEN 0 ELSE Head(b).len * Head(b).amp * Head(b).amp + SumSq(Tail(b))

RECURSIVE Peak(_)
Peak(b) == IF b = <<>> THEN 0
           ELSE LET p == Peak(Tail(b)) IN IF Head(b).amp > p THEN Head(b).amp ELSE p

\* rms_now < energy_threshold, with rms_now = sqrt(mean(square(audio))):
\* both sides squared and scaled by 1000^2 * size.
TooQuiet(b) == SumSq(b) < EnergyThousandths * EnergyThousandths * SumLen(b)

\* audio / peak when peak > 0 (amplitudes stay in 1/1000 of full scale)
Normalize(b) ==
    LET p == Peak(b)
    IN  IF p > 0 THEN [i \in 1..Len(b) |-> [b[i] EXCEPT !.amp = (@ * 1000) \div p]]
        ELSE b

Ids(b) == [i \in 1..Len(b) |-> b[i].id]

IsSpace(c) == c = " "

RECURSIVE LStrip(_)
LStrip(s) == IF s # <<>> /\ IsSpace(Head(s)) THEN LStrip(Tail(s)) ELSE s

RECURSIVE RStrip(_)
RStrip(s) == IF s # <<>> /\ IsSpace(s[Len(s)]) THEN RStrip(SubSeq(s, 1, Len(s) - 1)) ELSE s

Strip(s) == RStrip(LStrip(s))

RECURSIVE Join(_, _)
Join(sep, parts) ==
    IF parts = <<>> THEN <<>>
    ELSE IF Len(parts) = 1 THEN parts[1]
    ELSE parts[1] \o sep \o Join(sep, Tail(parts))

\* parts = [seg.text.strip() for seg in segments if seg.text]; " ".join(parts).strip()
RECURSIVE SegParts(_)
SegParts(segs) ==
    IF segs = <<>> THEN <<>>
    ELSE IF ~Head(segs).none /\ Head(segs).text # <<>>
         THEN <<Strip(Head(segs).text)>> \o SegParts(Tail(segs))
         ELSE SegParts(Tail(segs))

SegmentsText(segs) == Strip(Join(<<" ">>, SegParts(segs)))

\* ------------------------------------------- correction engine (pure part)
\* str.lower() on the model alphabet
Lower(c) == IF c = "A" THEN "a" ELSE IF c = "B" THEN "b" ELSE c
LowerStr(s) == [i \in 1..Len(s) |-> Lower(s[i])]

Term(k, c, al) == [key |-> k, canonical |-> c, aliases |-> al]

\* d[k] = v on a dict kept as a sequence of [k, v] in insertion order:
\* an existing key keeps its position and takes the new value
DictSet(d, k, v) ==
    IF \E i \in 1..Len(d) : d[i].k = k
    THEN [i \in 1..Len(d) |-> IF d[i].k = k THEN [k |-> k, v |-> v] ELSE d[i]]
    ELSE Append(d, [k |-> k, v |-> v])

DictHas(d, k) == \E i \in 1..Len(d) : d[i].k = k

RECURSIVE DirectAliases(_, _, _)
DirectAliases(d, canon, al) ==
    IF al = <<>> THEN d
    ELSE DirectAliases(DictSet(d, LowerStr(Head(al)), canon), canon, Tail(al))

\* TermCorrector.__init__: the direct table
RECURSIVE BuildDirect(_, _)
BuildDirect(d, ts) ==
    IF ts = <<>> THEN d
    ELSE LET t == Head(ts)
         IN  BuildDirect(DirectAliases(DictSet(d, LowerStr(t.canonical), t.canonical),
                                       t.canonical, t.aliases),
                         Tail(ts))

\* TermCorrector.__init__: key_to_canonical
RECURSIVE BuildKeyToCanonical(_, _)
BuildKeyToCanonical(d, ts) ==
    IF ts = <<>> THEN d
    ELSE BuildKeyToCanonical(DictSet(d, Head(ts).key, Head(ts).canonical), Tail(ts))

\* sorted(direct.items(), key=lambda x: -len(x[0])): stable, longest key first
RECURSIVE InsertByLen(_, _)
InsertByLen(sorted, e) ==
    IF sorted = <<>> THEN <<e>>
    ELSE IF Len(Head(sorted).k) >= Len(e.k)
         THEN <<Head(sorted)>> \o InsertByLen(Tail(sorted), e)
         ELSE <<e>> \o sorted

RECURSIVE SortedByLen(_, _)
SortedByLen(acc, d) ==
    IF d = <<>> THEN acc ELSE SortedByLen(InsertByLen(acc, Head(d)), Tail(d))

\* str.find: 1-based index of the first occurrence, 0 when absent
Find(t, needle) ==
    LET hits == {i \in 1..(Len(t) - Len(needle) + 1) :
                    SubSeq(t, i, i + Len(needle) - 1) = needle}
    IN  IF hits = {} THEN 0 ELSE CHOOSE i \in hits : \A j \in hits : i <= j

replace_case_insensitive(text, needle_lower, replacement) ==
    LET idx == Find(LowerStr(text), needle_lower)
    IN  IF idx = 0 THEN text
        ELSE SubSeq(text, 1, idx - 1) \o replacement
             \o SubSeq(text, idx + Len(needle_lower), Len(text))

\* correct(), lines 38-44: one sweep over the sorted direct table
RECURSIVE DirectPass(_, _, _, _)
DirectPass(entries, raw, lowered, changes) ==
    IF entries = <<>> THEN [raw |-> raw, changes |-> changes]
    ELSE LET e == Head(entries)
             hit == e.k # <<>> /\ Find(lowered, e.k) > 0
             new == IF hit THEN replace_case_insensitive(raw, e.k, e.v) ELSE raw
         IN  IF new # raw
             THEN DirectPass(Tail(entries), new, LowerStr(new),
                             Append(changes, [from |-> e.k, to |-> e.v, num |-> 1, den |-> 1]))
             ELSE DirectPass(Tail(entries), raw, lowered, changes)

\* str.split(): whitespace-delimited tokens
RECURSIVE Split(_, _, _)
Split(s, cur, acc) ==
    IF s = <<>> THEN (IF cur = <<>> THEN acc ELSE Append(acc, cur))
    ELSE IF IsSpace(Head(s))
         THEN Split(Tail(s), <<>>, IF cur = <<>> THEN acc ELSE Append(acc, cur))
         ELSE Split(Tail(s), Append(cur, Head(s)), acc)

\* length of the longest common subsequence
RECURSIVE LCS(_, _)
LCS(a, b) ==
    IF a = <<>> \/ b = <<>> THEN 0
    ELSE IF Head(a) = Head(b) THEN 1 + LCS(Tail(a), Tail(b))
    ELSE LET x == LCS(Tail(a), b)
             y == LCS(a, Tail(b))
         IN  IF x >= y THEN x ELSE y

\* Levenshtein.ratio as the fraction num/den: 1 - indel_distance/(len1+len2)
lev_ratio(a, b) ==
    IF Len(a) + Len(b) = 0 THEN [num |-> 1, den |-> 1]
    ELSE [num |-> 2 * LCS(a, b), den |-> Len(a) + Len(b)]

\* mutant: a score equal to the threshold does not qualify
FracGe_Strict(x, y) == x.num * y.den > y.num * x.den

\* mutant: a later target with an equal score replaces the best so far
FracGt_Weak(x, y) == x.num * y.den >= y.num * x.den

\* x > y and x >= y on fractions
FracGt(x, y) == x.num * y.den > y.num * x.den
FracGe(x, y) == x.num * y.den >= y.num * x.den

ThresholdHundredths == 86
threshold == [num |-> ThresholdHundredths, den |-> 100]

\* lines 58-65: the best target over [t.canonical] + t.aliases of every term
RECURSIVE BestOverTargets(_, _, _, _)
BestOverTargets(targets, canon, cand_l, best) ==
    IF targets = <<>> THEN best
    ELSE LET s == lev_ratio(cand_l, LowerStr(Head(targets)))
         IN  BestOverTargets(Tail(targets), canon, cand_l,
                 IF FracGt(s, best.score) THEN [score |-> s, to |-> canon, found |-> TRUE]
                 ELSE best)

RECURSIVE BestOverTerms(_, _, _)
BestOverTerms(ts, cand_l, best) ==
    IF ts = <<>> THEN best
    ELSE BestOverTerms(Tail(ts), cand_l,
             BestOverTargets(<<Head(ts).canonical>> \o Head(ts).aliases,
                             Head(ts).canonical, cand_l, best))

NoBest == [score |-> [num |-> 0, den |-> 1], to |-> <<>>, found |-> FALSE]

\* lines 50-71: the windows tokens[i:j], j = min(i+3, len) down to i+1
\* (i is 0-based as in the source); the first qualifying window, or j = 0
RECURSIVE TryWindows(_, _, _, _)
TryWindows(self, tokens, i, j) ==
    IF j <= i THEN [j |-> 0, best |-> NoBest, cand |-> <<>>]
    ELSE LET cand == Join(<<" ">>, SubSeq(tokens, i + 1, j))
             cand_l == LowerStr(cand)
             best == BestOverTerms(self.terms, cand_l, NoBest)
         IN  IF Len(cand) < 4 \/ DictHas(self.direct, cand_l)
             THEN TryWindows(self, tokens, i, j - 1)
             ELSE IF best.found /\ best.to # <<>> /\ FracGe(best.score, self.threshold)
                  THEN [j |-> j, best |-> best, cand |-> cand]
                  ELSE TryWindows(self, tokens, i, j - 1)

Min(a, b) == IF a <= b THEN a ELSE b

\* mutant: the replacement is made but no Correction is recorded
Replaced_Silent(st, r) ==
    [tokens  |-> SubSeq(st.tokens, 1, st.i) \o <<r.best.to>>
                 \o SubSeq(st.tokens, r.j + 1, Len(st.tokens)),
     changes |-> st.changes]

\* tokens[i:j] = [best_to] and the Correction appended (lines 68-69)
Replaced(st, r) ==
    [tokens  |-> SubSeq(st.tokens, 1, st.i) \o <<r.best.to>>
                 \o SubSeq(st.tokens, r.j + 1, Len(st.tokens)),
     changes |-> Append(st.changes, [from |-> r.cand, to |-> r.best.to,
                                     num |-> r.best.score.num, den |-> r.best.score.den])]

\* mutant: after a replacement the scan stays at the replaced token
FuzzyStep_Stay(self, st) ==
    LET r == TryWindows(self, st.tokens, st.i, Min(st.i + 3, Len(st.tokens)))
    IN  IF r.j = 0
        THEN [tokens |-> st.tokens, i |-> st.i + 1, changes |-> st.changes]
        ELSE [tokens |-> Replaced(st, r).tokens, i |-> st.i,
              changes |-> Replaced(st, r).changes]

\* lines 49-72: one iteration of the while loop, on the loop state
\* st = [tokens, i, changes]
FuzzyStep(self, st) ==
    LET r == TryWindows(self, st.tokens, st.i, Min(st.i + 3, Len(st.tokens)))
    IN  IF r.j = 0
        THEN [tokens |-> st.tokens, i |-> st.i + 1, changes |-> st.changes]
        ELSE [tokens |-> Replaced(st, r).tokens, i |-> st.i + 1,
              changes |-> Replaced(st, r).changes]

\* lines 46-72: the fuzzy sliding-window pass
RECURSIVE FuzzyPass(_, _, _, _)
FuzzyPass(self, tokens, i, changes) ==
    IF i >= Len(tokens) THEN [tokens |-> tokens, changes |-> changes]
    ELSE LET st == FuzzyStep(self, [tokens |-> tokens, i |-> i, changes |-> changes])
         IN  FuzzyPass(self, st.tokens, st.i, st.changes)

\* lines 14-24: TermCorrector.__init__(terms, threshold)
TermCorrector(terms, th) ==
    [terms |-> terms,
     threshold |-> th,
     direct |-> BuildDirect(<<>>, terms),
     key_to_canonical |-> BuildKeyToCanonical(<<>>, terms)]

\* lines 33-74: TermCorrector.correct
correct(self, text) ==
    LET p1 == DirectPass(SortedByLen(<<>>, self.direct), text, LowerStr(text), <<>>)
        p2 == FuzzyPass(self, Split(p1.raw, <<>>, <<>>), 0, p1.changes)
    IN  [text |-> Join(<<" ">>, p2.tokens), changes |-> p2.changes]

\* The dictionary MainWindow.__init__ loads: one term, canonical "A",
\* alias "a a".
UiTerms == <<Term(<<"k">>, <<"A">>, << <<"a", " ", "a">> >>)>>
UiFile == [ok |-> TRUE, terms |-> UiTerms]

\* Inputs of the correction engine: dictionary files of up to MaxTerms terms
\* (or a file that does not parse), configured thresholds, input texts.
Keys == {<<"k", "1">>, <<"k", "2">>}
Canonicals == {<<"B">>, <<"B", "a">>,
               <<"a", "a", "a", "a", "a", "b">>, <<"b", "a", "a", "a", "a", "a">>}
AliasLists == {<<>>, << <<"a">> >>, << <<"a", "b">> >>, << <<"A", "B">> >>}
TermSet == {Term(k, c, al) : k \in Keys, c \in Canonicals, al \in AliasLists}
Dictionaries == SeqsUpTo(TermSet, MaxTerms)
Files == {[ok |-> FALSE, terms |-> <<>>]} \cup {[ok |-> TRUE, terms |-> d] : d \in Dictionaries}
Thresholds == {threshold, [num |-> 4, den |-> 5]}
Texts == {<<"a">>, <<"a", "b">>, <<" ", "a">>, <<"a", " ", "c">>, <<"a", "a", "a", "a">>,
          <<"a", "a", "a", "a", "a", " ", "b">>,
          <<"a", "a", "a", "a", " ", "b", " ", "b">>,
          <<"a", " ", " ", "c">>}

sys_frame == <<ui_vars, out_q, ctrl_q, w_vars, nchunks, nlevels, emitted, handled, gate_log, fault,
               c_vars>>

\* lines 26-31: TermCorrector.load(path): parse the file, build the terms,
\* construct with the default threshold; a file that does not parse raises
load ==
    /\ corrector = <<>>
    /\ ~load_error
    /\ IF file.ok
       THEN /\ corrector' = <<TermCorrector(file.terms, threshold)>>
            /\ UNCHANGED load_error
       ELSE /\ load_error' = TRUE
            /\ UNCHANGED corrector
    /\ UNCHANGED <<file, calls, sys_frame>>

\* lines 14-24: TermCorrector(terms, threshold) called with a configured threshold
construct(th) ==
    /\ corrector = <<>>
    /\ ~load_error
    /\ file.ok
    /\ corrector' = <<TermCorrector(file.terms, th)>>
    /\ UNCHANGED <<file, load_error, calls, sys_frame>>

\* lines 33-74: one correct(text) call on the corrector
call_correct(text) ==
    /\ corrector # <<>>
    /\ Len(calls) < MaxCalls
    /\ calls' = Append(calls, [text |-> text, result |-> correct(corrector[1], text)])
    /\ UNCHANGED <<file, corrector, load_error, sys_frame>>

\* -------------------------------------------------------- AudioCapture
\* lines 10-15: AudioCapture.__init__
AudioCapture ==
    /\ cap_running = FALSE
    /\ cap_stream = "none"
    /\ cap_open = 0
    /\ cap_q = <<>>
    /\ cap_calls = <<>>

cap_frame == <<ui_vars, out_q, ctrl_q, w_vars, nchunks, nlevels, emitted, handled, gate_log, fault,
               e_vars>>

Called(op, result) == Append(cap_calls, [op |-> op, result |-> result])

\* what the environment lets a start() do: everything works, the import of
\* sounddevice raises, sd.InputStream(...) raises, stream.start() raises
StartOutcomes == {"ok", "import_fails", "open_fails", "start_fails"}

\* lines 17-30: AudioCapture.start
capture_start(outcome) ==
    /\ Len(cap_calls) < MaxCapCalls
    /\ IF cap_running
       THEN /\ cap_calls' = Called("start", "noop")
            /\ UNCHANGED <<cap_running, cap_stream, cap_open>>
       ELSE IF outcome = "import_fails"
       THEN /\ cap_calls' = Called("start", "raised")
            /\ UNCHANGED <<cap_running, cap_stream, cap_open>>
       ELSE /\ cap_running' = TRUE
            /\ IF outcome = "open_fails"
               THEN UNCHANGED <<cap_stream, cap_open>>
               ELSE /\ cap_stream' = IF outcome = "start_fails" THEN "created" ELSE "started"
                    /\ cap_open' = cap_open + 1
            /\ cap_calls' = Called("start", IF outcome = "ok" THEN "returned" ELSE "raised")
    /\ UNCHANGED <<cap_q, cap_frame>>

\* what the environment lets a stop() do: everything works, stream.stop()
\* raises, stream.close() raises
StopOutcomes == {"ok", "stop_fails", "close_fails"}

\* lines 32-37: AudioCapture.stop
capture_stop(outcome) ==
    /\ Len(cap_calls) < MaxCapCalls
    /\ cap_running' = FALSE
    /\ IF cap_stream = "none"
       THEN /\ cap_calls' = Called("stop", "returned")
            /\ UNCHANGED <<cap_stream, cap_open>>
       ELSE IF outcome = "stop_fails"
       THEN /\ cap_calls' = Called("stop", "raised")
            /\ UNCHANGED <<cap_stream, cap_open>>
       ELSE IF outcome = "close_fails"
       THEN /\ cap_calls' = Called("stop", "raised")
            /\ cap_stream' = "stopped"
            /\ UNCHANGED cap_open
       ELSE /\ cap_calls' = Called("stop", "returned")
            /\ cap_stream' = "none"
            /\ cap_open' = cap_open - 1
    /\ UNCHANGED <<cap_q, cap_frame>>

\* lines 39-44: AudioCapture.reset
capture_reset ==
    /\ Len(cap_calls) < MaxCapCalls
    /\ cap_q' = <<>>
    /\ cap_calls' = Called("reset", "returned")
    /\ UNCHANGED <<cap_running, cap_stream, cap_open, cap_frame>>

\* lines 46-50: AudioCapture._callback, called by a started stream
capture_callback ==
    /\ Len(cap_calls) < MaxCapCalls
    /\ cap_stream = "started"
    /\ IF cap_running
       THEN /\ cap_q' = Append(cap_q, Len(cap_calls) + 1)
            /\ cap_calls' = Called("callback", "queued")
       ELSE /\ cap_calls' = Called("callback", "dropped")
            /\ UNCHANGED cap_q
    /\ UNCHANGED <<cap_running, cap_stream, cap_open, cap_frame>>

\* ------------------------------------------------------------ the worker
\* The process is gone: its memory (the locals of stt_worker_main) with it.
Gone(w, how) ==
    /\ pc' = [pc EXCEPT ![w] = how]
    /\ audio_q' = [audio_q EXCEPT ![w] = <<>>]
    /\ buffer' = [buffer EXCEPT ![w] = <<>>]
    /\ audio' = [audio EXCEPT ![w] = <<>>]
    /\ segments' = [segments EXCEPT ![w] = NoSegments]
    /\ last_rms' = [last_rms EXCEPT ![w] = 0]
    /\ ok_count' = [ok_count EXCEPT ![w] = 0]
    /\ empty_count' = [empty_count EXCEPT ![w] = 0]

\* line 64: out_q.put(status Loading ...) as the process starts running
W_Begin(w) ==
    /\ pc[w] = "spawned"
    /\ Put(w, <<Status("Loading", 0)>>)
    /\ pc' = [pc EXCEPT ![w] = "loading"]
    /\ UNCHANGED <<stream, audio_q, buffer, audio, segments, last_rms, ok_count, empty_count>>
    /\ UNCHANGED <<ui_vars, e_vars, c_vars, ctrl_q, nchunks, nlevels, handled, gate_log, fault>>

\* mutant: the return after the load failure is missing
W_LoadModel_NoReturn(w) ==
    /\ pc[w] = "loading"
    /\ \E ok \in BOOLEAN :
         IF ok
         THEN /\ Put(w, <<Status("Loaded", 0)>>)
              /\ UNCHANGED fault
         ELSE /\ Put(w, <<Error("init"), Status("Loaded", 0)>>)
              /\ fault' = [fault EXCEPT ![w] = "load"]
    /\ pc' = [pc EXCEPT ![w] = "opening"]
    /\ UNCHANGED worker_frame
    /\ UNCHANGED <<ui_vars, e_vars, c_vars, ctrl_q, nchunks, nlevels, handled, gate_log>>

\* lines 65-77: WhisperModel(...) returns or raises
W_LoadModel(w) ==
    /\ pc[w] = "loading"
    /\ \E ok \in BOOLEAN :
         IF ok
         THEN /\ Put(w, <<Status("Loaded", 0)>>)
              /\ pc' = [pc EXCEPT ![w] = "opening"]
              /\ UNCHANGED fault
         ELSE /\ Put(w, <<Error("init")>>)
              /\ pc' = [pc EXCEPT ![w] = "exited"]
              /\ fault' = [fault EXCEPT ![w] = "load"]
    /\ UNCHANGED worker_frame
    /\ UNCHANGED <<ui_vars, e_vars, c_vars, ctrl_q, nchunks, nlevels, handled, gate_log>>

\* lines 99-117: sd.InputStream(...); stream.start() returns or raises
W_OpenStream(w) ==
    /\ pc[w] = "opening"
    /\ \E ok \in BOOLEAN :
         IF ok
         THEN /\ stream' = [stream EXCEPT ![w] = "open"]
              /\ Put(w, <<Status("Listening", 0)>>)
              /\ pc' = [pc EXCEPT ![w] = "loop"]
              /\ UNCHANGED fault
         ELSE /\ Put(w, <<Error("stream")>>)
              /\ pc' = [pc EXCEPT ![w] = "exited"]
              /\ fault' = [fault EXCEPT ![w] = "stream"]
              /\ UNCHANGED stream
    /\ UNCHANGED <<audio_q, buffer, audio, segments, last_rms, ok_count, empty_count>>
    /\ UNCHANGED <<ui_vars, e_vars, c_vars, ctrl_q, nchunks, nlevels, handled, gate_log>>

\* mutant: a chunk that arrives while the worker is inside an STT call is dropped
callback_DropWhenBusy(w, len, amp) ==
    /\ stream[w] = "open"
    /\ nchunks < MaxChunks
    /\ nchunks' = nchunks + 1
    /\ audio_q' = [audio_q EXCEPT ![w] =
                      IF pc[w] \in {"transcribing", "collect"}
                      THEN @
                      ELSE Append(@, [id |-> nchunks + 1, len |-> len, amp |-> amp])]
    /\ last_rms' = [last_rms EXCEPT ![w] = amp]
    /\ UNCHANGED <<pc, stream, buffer, audio, segments, ok_count, empty_count>>
    /\ UNCHANGED <<ui_vars, e_vars, c_vars, out_q, ctrl_q, nlevels, emitted, handled, gate_log, fault>>

\* lines 86-97: the capture callback, run by the audio thread of worker w
callback(w, len, amp) ==
    /\ stream[w] = "open"
    /\ nchunks < MaxChunks
    /\ nchunks' = nchunks + 1
    /\ audio_q' = [audio_q EXCEPT ![w] = Append(@, [id |-> nchunks + 1, len |-> len, amp |-> amp])]
    /\ last_rms' = [last_rms EXCEPT ![w] = amp]
    /\ UNCHANGED <<pc, stream, buffer, audio, segments, ok_count, empty_count>>
    /\ UNCHANGED <<ui_vars, e_vars, c_vars, out_q, ctrl_q, nlevels, emitted, handled, gate_log, fault>>

\* mutant: the command is compared with the wrong constant
StopSeen_Never(w) == ctrl_q[w] # <<>> /\ Head(ctrl_q[w]) = "stop"

\* lines 128-134: cmd = ctrl_q.get_nowait(); the command taken, or None
StopSeen(w) == ctrl_q[w] # <<>> /\ Head(ctrl_q[w]) = "STOP"

\* lines 120-134: top of the loop: level report, then the stop check
W_LoopTop(w) ==
    /\ pc[w] = "loop"
    /\ \E report \in BOOLEAN :
         /\ report => nlevels < MaxLevels
         /\ nlevels' = IF report THEN nlevels + 1 ELSE nlevels
         /\ Put(w, IF report THEN <<AudioLevel(last_rms[w])>> ELSE <<>>)
    /\ ctrl_q' = [ctrl_q EXCEPT ![w] = IF @ = <<>> THEN @ ELSE Tail(@)]
    /\ pc' = [pc EXCEPT ![w] = IF StopSeen(w) THEN "finally" ELSE "wait"]
    /\ UNCHANGED <<stream, audio_q, buffer, audio, segments, last_rms, ok_count, empty_count>>
    /\ UNCHANGED <<ui_vars, e_vars, c_vars, nchunks, handled, gate_log, fault>>

\* mutant: the length test off by one
TooShort_OffByOne(b) == SumLen(b) <= target_samples

\* line 147: not enough audio yet
TooShort(b) == SumLen(b) < target_samples

\* mutant: the accumulator is cleared only when the buffer passes the gate
Gate_KeepRejected(w, b) ==
    /\ gate_log' = Append(gate_log, [w |-> w, ids |-> Ids(b), n |-> SumLen(b),
                                     accepted |-> ~TooQuiet(b)])
    /\ IF TooQuiet(b)
       THEN /\ buffer' = [buffer EXCEPT ![w] = b]
            /\ Put(w, <<Status("TooQuiet", 0)>>)
            /\ pc' = [pc EXCEPT ![w] = "loop"]
            /\ UNCHANGED audio
       ELSE /\ buffer' = [buffer EXCEPT ![w] = <<>>]
            /\ audio' = [audio EXCEPT ![w] = Normalize(b)]
            /\ Put(w, <<Status("Transcribing", 0)>>)
            /\ pc' = [pc EXCEPT ![w] = "transcribing"]

\* lines 150-165: concatenate, clear, energy gate, normalise
Gate(w, b) ==
    /\ buffer' = [buffer EXCEPT ![w] = <<>>]
    /\ gate_log' = Append(gate_log, [w |-> w, ids |-> Ids(b), n |-> SumLen(b),
                                     accepted |-> ~TooQuiet(b)])
    /\ IF TooQuiet(b)
       THEN /\ Put(w, <<Status("TooQuiet", 0)>>)
            /\ pc' = [pc EXCEPT ![w] = "loop"]
            /\ UNCHANGED audio
       ELSE /\ audio' = [audio EXCEPT ![w] = Normalize(b)]
            /\ Put(w, <<Status("Transcribing", 0)>>)
            /\ pc' = [pc EXCEPT ![w] = "transcribing"]

\* lines 136-165: audio_q.get(timeout=0.2), append, length check, gate
W_GetAudio(w) ==
    /\ pc[w] = "wait"
    /\ IF audio_q[w] = <<>>
       THEN /\ pc' = [pc EXCEPT ![w] = "loop"]
            /\ UNCHANGED <<audio_q, buffer, audio, out_q, emitted, gate_log>>
       ELSE LET b == Append(buffer[w], Head(audio_q[w]))
            IN  /\ audio_q' = [audio_q EXCEPT ![w] = Tail(@)]
                /\ IF TooShort(b)
                   THEN /\ buffer' = [buffer EXCEPT ![w] = b]
                        /\ pc' = [pc EXCEPT ![w] = "loop"]
                        /\ UNCHANGED <<audio, out_q, emitted, gate_log>>
                   ELSE Gate(w, b)
    /\ UNCHANGED <<stream, segments, last_rms, ok_count, empty_count>>
    /\ UNCHANGED <<ui_vars, e_vars, c_vars, ctrl_q, nchunks, nlevels, handled, fault>>

\* mutant: a transcribe failure ends the loop instead of continuing it
W_Transcribe_FailStops(w) ==
    /\ pc[w] = "transcribing"
    /\ \E ok \in BOOLEAN, segs \in SegChoices :
         IF ok
         THEN /\ segments' = [segments EXCEPT ![w] = segs]
              /\ pc' = [pc EXCEPT ![w] = "collect"]
              /\ UNCHANGED <<out_q, emitted>>
         ELSE /\ segs = <<>>
              /\ Put(w, <<Error("transcribe")>>)
              /\ pc' = [pc EXCEPT ![w] = "finally"]
              /\ UNCHANGED segments
    /\ audio' = [audio EXCEPT ![w] = <<>>]
    /\ UNCHANGED <<stream, audio_q, buffer, last_rms, ok_count, empty_count>>
    /\ UNCHANGED <<ui_vars, e_vars, c_vars, ctrl_q, nchunks, nlevels, handled, gate_log, fault>>

\* mutant: the call is abandoned when a stop command is waiting
W_Transcribe_Cancellable(w) ==
    /\ pc[w] = "transcribing"
    /\ IF StopSeen(w)
       THEN /\ pc' = [pc EXCEPT ![w] = "finally"]
            /\ UNCHANGED <<out_q, emitted, segments>>
       ELSE \E ok \in BOOLEAN, segs \in SegChoices :
              IF ok
              THEN /\ segments' = [segments EXCEPT ![w] = segs]
                   /\ pc' = [pc EXCEPT ![w] = "collect"]
                   /\ UNCHANGED <<out_q, emitted>>
              ELSE /\ segs = <<>>
                   /\ Put(w, <<Error("transcribe")>>)
                   /\ pc' = [pc EXCEPT ![w] = "loop"]
                   /\ UNCHANGED segments
    /\ audio' = [audio EXCEPT ![w] = <<>>]
    /\ UNCHANGED <<stream, audio_q, buffer, last_rms, ok_count, empty_count>>
    /\ UNCHANGED <<ui_vars, e_vars, c_vars, ctrl_q, nchunks, nlevels, handled, gate_log, fault>>

\* lines 167-178: model.transcribe(...) returns segments or raises
W_Transcribe(w) ==
    /\ pc[w] = "transcribing"
    /\ \E ok \in BOOLEAN, segs \in SegChoices :
         IF ok
         THEN /\ segments' = [segments EXCEPT ![w] = segs]
              /\ pc' = [pc EXCEPT ![w] = "collect"]
              /\ UNCHANGED <<out_q, emitted>>
         ELSE /\ segs = <<>>
              /\ Put(w, <<Error("transcribe")>>)
              /\ pc' = [pc EXCEPT ![w] = "loop"]
              /\ UNCHANGED segments
    /\ audio' = [audio EXCEPT ![w] = <<>>]
    /\ UNCHANGED <<stream, audio_q, buffer, last_rms, ok_count, empty_count>>
    /\ UNCHANGED <<ui_vars, e_vars, c_vars, ctrl_q, nchunks, nlevels, handled, gate_log, fault>>

\* mutant: the worker corrects the text before sending it
Report_Corrected(w, text) ==
    IF text # <<>>
    THEN <<Status("OK", ok_count[w] + 1), Text(correct(TermCorrector(UiTerms, threshold), text).text)>>
    ELSE <<Status("NoSpeech", empty_count[w] + 1)>>

\* lines 186-192: the messages put for the collected text
Report(w, text) ==
    IF text # <<>>
    THEN <<Status("OK", ok_count[w] + 1), Text(text)>>
    ELSE <<Status("NoSpeech", empty_count[w] + 1)>>

\* lines 180-192: join the segment texts and report
W_Collect(w) ==
    /\ pc[w] = "collect"
    /\ pc' = [pc EXCEPT ![w] = "loop"]
    /\ segments' = [segments EXCEPT ![w] = NoSegments]
    /\ \E parts \in {SegParts(segments[w])} :
       \E joined \in {Join(<<" ">>, parts)} :
       \E text \in {Strip(joined)} :
          /\ ok_count' = [ok_count EXCEPT ![w] = IF text # <<>> THEN @ + 1 ELSE @]
          /\ empty_count' = [empty_count EXCEPT ![w] = IF text # <<>> THEN @ ELSE @ + 1]
          /\ Put(w, Report(w, text))
    /\ UNCHANGED <<stream, audio_q, buffer, audio, last_rms>>
    /\ UNCHANGED <<ui_vars, e_vars, c_vars, ctrl_q, nchunks, nlevels, handled, gate_log, fault>>

\* mutant: the finally block does not touch the stream
W_Finally_NoClose(w) ==
    /\ pc[w] = "finally"
    /\ pc' = [pc EXCEPT ![w] = "final_status"]
    /\ UNCHANGED <<stream, audio_q, buffer, audio, segments, last_rms, ok_count, empty_count>>
    /\ UNCHANGED <<ui_vars, e_vars, c_vars, out_q, ctrl_q, nchunks, nlevels, obs_frame>>

\* lines 194-199: finally: stream.stop(); stream.close(), a failure of
\* either call swallowed by `except Exception: pass`
W_Finally(w) ==
    /\ pc[w] = "finally"
    /\ \E closed \in BOOLEAN :
         stream' = [stream EXCEPT ![w] = IF closed THEN "closed" ELSE "unclosed"]
    /\ pc' = [pc EXCEPT ![w] = "final_status"]
    /\ UNCHANGED <<audio_q, buffer, audio, segments, last_rms, ok_count, empty_count>>
    /\ UNCHANGED <<ui_vars, e_vars, c_vars, out_q, ctrl_q, nchunks, nlevels, obs_frame>>

\* line 200: the final status; stt_worker_main returns and the process exits
W_Exit(w) ==
    /\ pc[w] = "final_status"
    /\ Put(w, <<Status("Stopped", 0)>>)
    /\ Gone(w, "exited")
    /\ UNCHANGED <<ui_vars, e_vars, c_vars, stream, ctrl_q, nchunks, nlevels, handled, gate_log, fault>>

stt_worker_main(w) ==
    \/ W_Begin(w)
    \/ W_LoadModel(w)
    \/ W_OpenStream(w)
    \/ W_LoopTop(w)
    \/ W_GetAudio(w)
    \/ W_Transcribe(w)
    \/ W_Collect(w)
    \/ W_Finally(w)
    \/ W_Exit(w)

\* ------------------------------------------------------------ the display
Label(m, n) == [msg |-> m, n |-> n]

ProcAlive == stt_proc # None /\ Alive(stt_proc)

\* A process slot is taken by a new worker once the worker in it is gone.
CanSpawn == \E w \in Workers : ~Alive(w)
NewWorker == CHOOSE w \in Workers : ~Alive(w) /\ \A v \in Workers : ~Alive(v) => w <= v

\* lines 163-170: two new queues, a new process running stt_worker_main
Spawn(w) ==
    /\ out_q' = [out_q EXCEPT ![w] = <<>>]
    /\ ctrl_q' = [ctrl_q EXCEPT ![w] = <<>>]
    /\ pc' = [pc EXCEPT ![w] = "spawned"]
    /\ stream' = [stream EXCEPT ![w] = "none"]
    /\ emitted' = [emitted EXCEPT ![w] = <<>>]
    /\ handled' = [handled EXCEPT ![w] = <<>>]
    /\ notified' = <<>>
    /\ unshown' = {}
    /\ fault' = [fault EXCEPT ![w] = "none"]

\* mutant: the is_alive() guard is missing
start_stt_process_NoGuard ==
    /\ CanSpawn
    /\ status_label' = Label("Starting", 0)
    /\ ui_out_q' = NewWorker
    /\ ui_ctrl_q' = NewWorker
    /\ stt_proc' = NewWorker
    /\ Spawn(NewWorker)
    /\ UNCHANGED <<ui_pc, ui_caller, text_live, text_edit, escaped>>
    /\ UNCHANGED <<audio_q, buffer, audio, segments, last_rms, ok_count, empty_count>>
    /\ UNCHANGED <<e_vars, c_vars, nchunks, nlevels, gate_log>>

\* lines 156-171: MainWindow._start_stt_process
start_stt_process ==
    IF ProcAlive
    THEN UNCHANGED vars
    ELSE /\ CanSpawn
         /\ status_label' = Label("Starting", 0)
         /\ ui_out_q' = NewWorker
         /\ ui_ctrl_q' = NewWorker
         /\ stt_proc' = NewWorker
         /\ Spawn(NewWorker)
         /\ UNCHANGED <<ui_pc, ui_caller, text_live, text_edit, escaped>>
         /\ UNCHANGED <<audio_q, buffer, audio, segments, last_rms, ok_count, empty_count>>
         /\ UNCHANGED <<e_vars, c_vars, nchunks, nlevels, gate_log>>

\* what the caller of _stop_stt_process does after it returns
AfterStop(caller) ==
    /\ ui_pc' = IF caller = "close" THEN "closed" ELSE "idle"
    /\ ui_caller' = "none"
    /\ IF caller = "reset"
       THEN /\ text_live' = <<>>
            /\ text_edit' = <<>>
            /\ status_label' = Label("Reset", 0)
       ELSE UNCHANGED <<text_live, text_edit>>

\* lines 173-181: _stop_stt_process up to the join(timeout=3) it blocks in
stop_stt_process(caller) ==
    IF stt_proc = None
    THEN /\ AfterStop(caller)
         /\ IF caller = "reset" THEN TRUE ELSE UNCHANGED status_label
         /\ UNCHANGED <<stt_proc, ui_out_q, ui_ctrl_q, notified, unshown, escaped>>
         /\ UNCHANGED <<out_q, ctrl_q, pc, worker_frame, e_vars, c_vars, nchunks, nlevels, obs_frame>>
    ELSE /\ ctrl_q' = IF ui_ctrl_q # None
                      THEN [ctrl_q EXCEPT ![ui_ctrl_q] = Append(@, "STOP")]
                      ELSE ctrl_q
         /\ ui_pc' = "joining"
         /\ ui_caller' = caller
         /\ UNCHANGED <<stt_proc, ui_out_q, ui_ctrl_q, status_label, text_live, text_edit, notified,
                     unshown, escaped>>
         /\ UNCHANGED <<out_q, pc, worker_frame, e_vars, c_vars, nchunks, nlevels, obs_frame>>

\* self._out_q = None; self._ctrl_q = None: the worker is gone by then, so
\* nothing refers to the two queue objects any more
DropQueues(w) ==
    /\ out_q' = [out_q EXCEPT ![w] = <<>>]
    /\ ctrl_q' = [ctrl_q EXCEPT ![w] = <<>>]

\* Calls of the worker that may outlast the 3 s join timeout; every other
\* step of the worker takes at most the 0.2 s queue timeout.
LongCall(w) == pc[w] \in {"spawned", "loading", "opening", "transcribing", "collect"}

\* line 181: join(timeout=3) gives up while the worker is still alive
JoinTimesOut(w) == Alive(w) /\ LongCall(w)

\* lines 181-187: the join ends, because the worker exited or the timeout
\* passed; a worker still alive is terminated; the handles are dropped
stop_stt_process_end ==
    /\ ui_pc = "joining"
    /\ LET w == stt_proc
       IN  \/ /\ ~Alive(w)
              /\ UNCHANGED <<pc, worker_frame>>
           \/ /\ JoinTimesOut(w)
              /\ Gone(w, "killed")
              /\ stream' = [stream EXCEPT ![w] = IF @ = "open" THEN "aborted" ELSE @]
    /\ stt_proc' = None
    /\ ui_out_q' = None
    /\ ui_ctrl_q' = None
    /\ AfterStop(ui_caller)
    /\ IF ui_caller = "reset" THEN TRUE ELSE status_label' = Label("Stopped", 0)
    /\ DropQueues(stt_proc)
    /\ UNCHANGED <<notified, unshown, escaped, e_vars, c_vars, nchunks, nlevels, obs_frame>>

\* lines 189-193: MainWindow.toggle
toggle ==
    /\ ui_pc = "idle"
    /\ IF ProcAlive THEN stop_stt_process("toggle") ELSE start_stt_process

\* a direct start request
start ==
    /\ ui_pc = "idle"
    /\ start_stt_process

\* lines 195-200: MainWindow.reset
reset ==
    /\ ui_pc = "idle"
    /\ stop_stt_process("reset")

\* lines 283-285: MainWindow.closeEvent
closeEvent ==
    /\ ui_pc = "idle"
    /\ stop_stt_process("close")

\* lines 229-250: handling of one message
Handle(st, m) ==
    IF m.type = "status" THEN [st EXCEPT !.status_label = Label(m.msg, m.n)]
    ELSE IF m.type = "error" THEN [st EXCEPT !.notified = Append(@, m.msg)]
    ELSE IF m.type = "audio_level" THEN [st EXCEPT !.status_label = Label("Level", m.n)]
    ELSE IF m.type = "text" /\ m.text # <<>>
         THEN LET corrected == correct(corrector[1], m.text).text
              IN  [st EXCEPT !.text_live = Append(@, corrected),
                             !.text_edit = Append(@, corrected)]
    ELSE st

\* lines 229-250 up to the first _log call of the branch: the status label is
\* set and the text appended before the call, the notification is shown
\* after it; an AudioLevel and an empty Text are handled without a log call
HandleUntilLog(st, m) == IF m.type = "error" THEN st ELSE Handle(st, m)

\* the handling of m writes a log line (lines 234, 237, 248)
Logged(m) == m.type \in {"status", "error"} \/ (m.type = "text" /\ m.text # <<>>)

RECURSIVE HandleAll(_, _)
HandleAll(st, ms) == IF ms = <<>> THEN st ELSE HandleAll(Handle(st, Head(ms)), Tail(ms))

\* the messages ms handled in order, the handling of ms[bad] cut short by
\* an exception of its log call (bad = 0: none)
HandleAllBut(st, ms, bad) ==
    IF bad = 0 THEN HandleAll(st, ms)
    ELSE HandleAll(HandleUntilLog(HandleAll(st, SubSeq(ms, 1, bad - 1)), ms[bad]),
                   SubSeq(ms, bad + 1, Len(ms)))

\* lines 25-33, 224-226, 249-250: _log prints outside any try, so the log
\* call of a branch may raise, and so may the log call of the handler that
\* catches it. The faults of one poll that takes ms:
\*   none    no exception, or a read fault that is logged (the loop breaks as
\*           it does on Empty);
\*   read    get_nowait() raises after ms and the log call of line 225 raises;
\*   handle  the log call for ms[at] raises; the handler's log call at line
\*           250 returns (the loop goes on) or raises (the poll ends at ms[at]).
\*           A Status or a Text has had its effect before its log call, so a
\*           fault that is caught there is the case "none"; for an Error it
\*           is not.
PollFaults(ms) ==
    {[kind |-> "none", at |-> 0, raised |-> FALSE]}
    \cup {[kind |-> "read", at |-> 0, raised |-> TRUE]}
    \cup {[kind |-> "handle", at |-> i, raised |-> FALSE] :
             i \in {j \in DOMAIN ms : ms[j].type = "error"}}
    \cup {[kind |-> "handle", at |-> i, raised |-> TRUE] : i \in {j \in {Len(ms)} \ {0} : Logged(ms[j])}}

\* mutant: the poll takes the newest messages first
Taken_Newest(q, k) == SubSeq(out_q[q], Len(out_q[q]) - k + 1, Len(out_q[q]))

\* lines 219-226: the messages one poll takes: get_nowait() until Empty
\* (or a read fault); k of the messages that are in the queue
Taken(q, k) == SubSeq(out_q[q], 1, k)

\* lines 202-253: MainWindow._drain_out_queue, one timer tick
drain_out_queue ==
    /\ ui_pc = "idle"
    /\ IF stt_proc # None /\ ~Alive(stt_proc)
       THEN /\ status_label' = Label("Exited", 0)
            /\ stt_proc' = None
            /\ ui_out_q' = None
            /\ ui_ctrl_q' = None
            /\ DropQueues(stt_proc)
            /\ UNCHANGED <<text_live, text_edit, notified, unshown, escaped, handled>>
       ELSE IF ui_out_q = None
       THEN UNCHANGED <<stt_proc, ui_out_q, ui_ctrl_q, status_label, text_live, text_edit,
                        notified, unshown, escaped, out_q, ctrl_q, handled>>
       ELSE \E k \in 0..Len(out_q[ui_out_q]) :
            \E f \in PollFaults(Taken(ui_out_q, k)) :
            \E st \in {HandleAllBut([status_label |-> status_label, text_live |-> text_live,
                                     text_edit |-> text_edit, notified |-> notified],
                                    Taken(ui_out_q, k), f.at)} :
              LET q == ui_out_q
                  ms == Taken(q, k)
              IN  /\ f.raised => escaped < MaxEscapes
                  /\ escaped' = IF f.raised THEN escaped + 1 ELSE escaped
                  /\ unshown' = IF f.at # 0 /\ ms[f.at].type = "error"
                                THEN unshown \cup {Len(handled[q]) + f.at}
                                ELSE unshown
                  /\ out_q' = [out_q EXCEPT ![q] = SubSeq(@, Len(ms) + 1, Len(@))]
                  /\ handled' = [handled EXCEPT ![q] = @ \o ms]
                  /\ status_label' = st.status_label
                  /\ text_live' = st.text_live
                  /\ text_edit' = st.text_edit
                  /\ notified' = st.notified
                  /\ UNCHANGED <<stt_proc, ui_out_q, ui_ctrl_q, ctrl_q>>
    /\ UNCHANGED <<ui_pc, ui_caller, pc, worker_frame, e_vars, c_vars, nchunks, nlevels>>
    /\ UNCHANGED <<emitted, gate_log, fault>>

\* ---------------------------------------------------------- specification
SysInit ==
    /\ stt_proc = None
    /\ ui_out_q = None
    /\ ui_ctrl_q = None
    /\ ui_pc = "idle"
    /\ ui_caller = "none"
    /\ status_label = Label("Idle", 0)
    /\ text_live = <<>>
    /\ text_edit = <<>>
    /\ notified = <<>>
    /\ unshown = {}
    /\ escaped = 0
    /\ out_q = [w \in Workers |-> <<>>]
    /\ ctrl_q = [w \in Workers |-> <<>>]
    /\ pc = [w \in Workers |-> "unborn"]
    /\ stream = [w \in Workers |-> "none"]
    /\ audio_q = [w \in Workers |-> <<>>]
    /\ buffer = [w \in Workers |-> <<>>]
    /\ audio = [w \in Workers |-> <<>>]
    /\ segments = [w \in Workers |-> NoSegments]
    /\ last_rms = [w \in Workers |-> 0]
    /\ ok_count = [w \in Workers |-> 0]
    /\ empty_count = [w \in Workers |-> 0]
    /\ nchunks = 0
    /\ nlevels = 0
    /\ emitted = [w \in Workers |-> <<>>]
    /\ handled = [w \in Workers |-> <<>>]
    /\ gate_log = <<>>
    /\ fault = [w \in Workers |-> "none"]
    /\ AudioCapture

\* MainWindow.__init__: the display with its corrector loaded (line 108)
Init ==
    /\ SysInit
    /\ file = UiFile
    /\ corrector = <<TermCorrector(UiTerms, threshold)>>
    /\ load_error = FALSE
    /\ calls = <<>>

Worker == \E w \in Workers : stt_worker_main(w)
Capture == \E w \in Workers, len \in ChunkLens, amp \in ChunkAmps : callback(w, len, amp)

Next ==
    \/ Worker
    \/ Capture
    \/ start
    \/ toggle
    \/ reset
    \/ closeEvent
    \/ stop_stt_process_end
    \/ drain_out_queue

Spec == Init /\ [][Next]_vars

\* The correction engine on its own: a dictionary file is loaded or a
\* corrector constructed, then correct() is called on input texts and on the
\* text a previous call returned.
EngineInit ==
    /\ SysInit
    /\ file \in Files
    /\ corrector = <<>>
    /\ load_error = FALSE
    /\ calls = <<>>

Construct == \E th \in Thresholds : construct(th)
Correct == \E text \in Texts \cup {calls[i].result.text : i \in DOMAIN calls} : call_correct(text)

EngineNext ==
    \/ load
    \/ Construct
    \/ Correct

EngineSpec == EngineInit /\ [][EngineNext]_vars

\* An AudioCapture object on its own: start(), stop(), reset() called in any
\* order, each with any outcome of the device, and the stream's callbacks.
CaptureStart == \E outcome \in StartOutcomes : capture_start(outcome)
CaptureStop == \E outcome \in StopOutcomes : capture_stop(outcome)

CaptureNext ==
    \/ CaptureStart
    \/ CaptureStop
    \/ capture_reset
    \/ capture_callback

CaptureSpec == Init /\ [][CaptureNext]_vars

\* ------------------------------------------------------------ properties
Last(s) == s[Len(s)]
Range(s) == {s[i] : i \in DOMAIN s}
OfType(s, t) == SelectSeq(s, LAMBDA m : m.type = t)

\* the messages worker w puts in a step
Added(w) == SubSeq(emitted'[w], Len(emitted[w]) + 1, Len(emitted'[w]))

\* worker w takes a chunk from audio_q and appends it to the accumulator
PushStep(w) == pc[w] = "wait" /\ audio_q[w] # <<>> /\ pc'[w] \in {"loop", "transcribing"}
Pushed(w) == Append(buffer[w], Head(audio_q[w]))

C1_Step ==
    /\ \A w \in Workers :
         PushStep(w) =>
            IF SumLen(Pushed(w)) < target_samples
            THEN /\ gate_log' = gate_log
                 /\ buffer'[w] = Pushed(w)
                 /\ pc'[w] = "loop"
            ELSE /\ Len(gate_log') = Len(gate_log) + 1
                 /\ SubSeq(gate_log', 1, Len(gate_log)) = gate_log
                 /\ Last(gate_log').w = w
                 /\ Last(gate_log').ids = Ids(Pushed(w))
                 /\ Last(gate_log').n = SumLen(Pushed(w))
                 /\ buffer'[w] = <<>>
    /\ gate_log' # gate_log =>
         \E w \in Workers : PushStep(w) /\ SumLen(Pushed(w)) >= target_samples

\* C1: the accumulated sample count is below target_samples whenever the
\* worker is between steps; a push that leaves the count below target_samples
\* gates nothing; the push that brings it to target_samples or more gates
\* exactly once, the concatenation of all buffered chunks, and leaves the
\* accumulator empty; nothing else gates.
C1_GatingBoundary ==
    /\ [](\A w \in Workers : SumLen(buffer[w]) < target_samples)
    /\ [][C1_Step]_vars

\* C1 witness: 39999 samples were buffered without gating and one more
\* sample gated the two chunks together.
C1_Witness ==
    \E i \in DOMAIN gate_log :
        /\ gate_log[i].n = target_samples
        /\ Len(gate_log[i].ids) = 2
        /\ buffer[gate_log[i].w] = <<>>

C2_Step ==
    \A w \in Workers :
        ( /\ PushStep(w)
          /\ SumLen(Pushed(w)) >= target_samples
          /\ SumSq(Pushed(w)) < EnergyThousandths * EnergyThousandths * SumLen(Pushed(w)) )
        => /\ Added(w) = <<Status("TooQuiet", 0)>>
           /\ pc'[w] = "loop"
           /\ audio'[w] = <<>>
           /\ buffer'[w] = <<>>

GatedIds == UNION {Range(gate_log[i].ids) : i \in DOMAIN gate_log}

C2_NoRetest ==
    /\ \A i, j \in DOMAIN gate_log :
         \A a \in DOMAIN gate_log[i].ids, b \in DOMAIN gate_log[j].ids :
            (i # j \/ a # b) => gate_log[i].ids[a] # gate_log[j].ids[b]
    /\ \A w \in Workers :
         GatedIds \cap (Range(Ids(buffer[w])) \cup Range(Ids(audio_q[w]))) = {}

\* C2: a buffer that reached the length threshold with RMS below
\* energy_threshold makes the worker put one Status ("too quiet") and no
\* Error, start no STT call, and leaves the accumulator empty; no chunk is
\* in two gated buffers or gated and still waiting to be gated.
C2_GateRejection == []C2_NoRetest /\ [][C2_Step]_vars

\* C2 witness: a buffer was rejected by the energy gate and the worker is
\* back at the top of its loop with "too quiet" as its last message.
C2_Witness ==
    \E i \in DOMAIN gate_log :
        /\ ~gate_log[i].accepted
        /\ pc[gate_log[i].w] = "loop"
        /\ emitted[gate_log[i].w] # <<>>
        /\ Last(emitted[gate_log[i].w]) = Status("TooQuiet", 0)
        /\ buffer[gate_log[i].w] = <<>>

\* C3: a worker whose engine load or stream open failed has put exactly one
\* Error, has put no Listening status, never had a running capture stream,
\* and has exited.
C3_FatalFault ==
    \A w \in Workers :
        fault[w] # "none" =>
            /\ pc[w] = "exited"
            /\ Len(OfType(emitted[w], "error")) = 1
            /\ Last(emitted[w]).type = "error"
            /\ Status("Listening", 0) \notin Range(emitted[w])
            /\ stream[w] = "none"

\* C3 witness: the engine loaded and the stream then failed to open.
C3_Witness ==
    \E w \in Workers :
        /\ fault[w] = "stream"
        /\ pc[w] = "exited"
        /\ Status("Loaded", 0) \in Range(emitted[w])
\* the STT call of worker w ends by raising
SttRaised(w) == pc[w] = "transcribing" /\ pc'[w] \notin {"transcribing", "collect", "killed"}

\* C4: when the STT call raises, the worker puts one Error, goes back to the
\* top of its loop with the capture stream still open and the accumulator
\* empty, and does not stop.  (That a later utterance is then transcribed and
\* its Text put is the reachable state C4_Witness.)
C4_RecoverableFailure ==
    [][\A w \in Workers :
          SttRaised(w) =>
             /\ Added(w) = <<Error("transcribe")>>
             /\ pc'[w] = "loop"
             /\ stream'[w] = "open"
             /\ buffer'[w] = <<>>
             /\ audio'[w] = <<>>]_vars

\* C4 witness: a worker put a transcribe Error and, later, a Text.
C4_Witness ==
    \E w \in Workers :
        \E i, j \in DOMAIN emitted[w] :
            /\ i < j
            /\ emitted[w][i] = Error("transcribe")
            /\ emitted[w][j].type = "text"

\* The worker is scheduled, and every engine load, stream open and STT call
\* returns or raises: no step of a live worker is postponed for ever.
LiveSpec == Init /\ [][Next]_vars /\ WF_vars(Worker)

StopPending(w) == \E i \in DOMAIN ctrl_q[w] : ctrl_q[w][i] = "STOP"

\* C5: a worker with a stop command on its control channel, whatever its
\* position (also before or while the engine loads), eventually is no longer
\* alive.
C5_StopLiveness ==
    \A w \in Workers : (Alive(w) /\ StopPending(w)) ~> ~Alive(w)

\* C5 witness: the stop command is on the channel of a worker that has not
\* finished loading the engine.
C5_Witness ==
    \E w \in Workers : StopPending(w) /\ pc[w] \in {"spawned", "loading"}

InSttCall(w) == pc[w] \in {"transcribing", "collect"}

\* C6 as stated: a worker inside an STT call always gets to the end of it.
C6_NeverPreempted ==
    [][\A w \in Workers : InSttCall(w) => pc'[w] \in {"transcribing", "collect", "loop"}]_vars

\* C6 amended: the worker itself never abandons an STT call and takes the
\* stop command only at the top of a loop iteration; an STT call ends early
\* only when the display, waiting in join(timeout=3), terminates the process.
C6_CooperativeStop ==
    [][\A w \in Workers :
          /\ InSttCall(w) =>
                \/ /\ pc'[w] \in {"transcribing", "collect", "loop"}
                   /\ \/ ctrl_q'[w] = ctrl_q[w]
                      \/ ctrl_q'[w] = Append(ctrl_q[w], "STOP")
                \/ /\ pc'[w] = "killed"
                   /\ ui_pc = "joining"
                   /\ stt_proc = w
          /\ (pc'[w] = "finally" /\ pc[w] # "finally") =>
                /\ pc[w] = "loop"
                /\ ctrl_q[w] # <<>>
                /\ Head(ctrl_q[w]) = "STOP"]_vars

\* C6 witness: the display asked for the stop while the STT call runs.
C6_Witness ==
    \E w \in Workers : pc[w] = "transcribing" /\ StopPending(w) /\ ui_pc = "joining"

\* C7: every live worker is the one the display holds, together with the
\* two channels created for it: at most one worker is alive, and no start
\* replaced the process or the channels of a live worker.
C7_SingleWorker ==
    \A w \in Workers : Alive(w) => stt_proc = w /\ ui_out_q = w /\ ui_ctrl_q = w

\* C7 witness: a worker is alive that was started after an earlier worker
\* had produced text.
C7_Witness ==
    /\ ProcAlive
    /\ text_live # <<>>
    /\ OfType(emitted[stt_proc], "text") = <<>>

FatalError(w) == IF fault[w] = "load" THEN "init" ELSE "stream"

\* C8 as stated: once the display has let go of the channel of a worker
\* that met a fatal fault, it has shown the worker's Error.
C8_FatalErrorSurfaced ==
    \A w \in Workers :
        (fault[w] # "none" /\ ui_out_q # w) => FatalError(w) \in Range(notified)

IsPrefix(s, t) == Len(s) <= Len(t) /\ SubSeq(t, 1, Len(s)) = s

RECURSIVE Shown(_, _)
\* the Errors among h[i..] whose notification was shown, in order
Shown(h, i) ==
    IF i > Len(h) THEN <<>>
    ELSE (IF h[i].type = "error" /\ i \notin unshown THEN <<h[i].msg>> ELSE <<>>)
         \o Shown(h, i + 1)

\* C9: what the display has handled is a prefix of what the worker put, in
\* the same order; while the display holds the channel, handled followed by
\* the messages in flight is exactly what was put; and the notifications
\* shown are the handled Errors in that order (but for an Error whose
\* handling was cut short by an exception of its log call).
C9_Fifo ==
    \A w \in Workers :
        /\ IsPrefix(handled[w], emitted[w])
        /\ ui_out_q = w =>
              /\ handled[w] \o out_q[w] = emitted[w]
              /\ notified = Shown(handled[w], 1)

\* C9 witness: the display has handled messages of all four kinds from one
\* worker.
C9_Witness ==
    \E w \in Workers :
        {"status", "audio_level", "text", "error"} \subseteq {m.type : m \in Range(handled[w])}

\* some segment has a text with a character that is not whitespace
HasSpeech(segs) ==
    \E i \in DOMAIN segs :
        ~segs[i].none /\ \E j \in DOMAIN segs[i].text : ~IsSpace(segs[i].text[j])

CollectStep(w) == pc[w] = "collect" /\ pc'[w] \notin {"collect", "killed"}

\* C10: the step that ends a successful STT call puts exactly one Text, the
\* trimmed space-joined segment text uncorrected, when some segment has
\* speech, and no Text otherwise; a failed call and every other step put no
\* Text.
C10_TextEmission ==
    [][\A w \in Workers :
          IF CollectStep(w)
          THEN OfType(Added(w), "text") =
                  IF HasSpeech(segments[w]) THEN <<Text(SegmentsText(segments[w]))>> ELSE <<>>
          ELSE OfType(Added(w), "text") = <<>>]_vars

\* C10 witness: the raw text "a a" of two segments was put and handled, and
\* the display appended its corrected form.
C10_Witness ==
    \E w \in Workers :
        /\ Text(<<"a", " ", "a">>) \in Range(handled[w])
        /\ text_live # <<>>
        /\ Last(text_live) = <<"A">>

C11_Step ==
    \A w \in Workers :
        /\ pc[w] = "finally" =>
              /\ pc'[w] \in {"finally", "final_status"}
              /\ Added(w) = <<>>
              /\ pc'[w] = "final_status" => stream'[w] \in {"closed", "unclosed"}
        /\ pc[w] = "final_status" =>
              /\ pc'[w] \in {"final_status", "exited"}
              /\ stream'[w] = stream[w]
              /\ stream[w] \in {"closed", "unclosed"}
              /\ pc'[w] = "exited" => Added(w) = <<Status("Stopped", 0)>>
              /\ pc'[w] = "final_status" => Added(w) = <<>>
        /\ (pc[w] = "exited" /\ pc'[w] = "exited") => emitted'[w] = emitted[w]

\* C11 as stated: every worker that reached Listening and has been stopped
\* has closed its capture stream and has the final Status as its last
\* message.
C11_StoppedCleanly ==
    \A w \in Workers :
        (Status("Listening", 0) \in Range(emitted[w]) /\ pc[w] \in {"exited", "killed"}) =>
            /\ stream[w] = "closed"
            /\ Last(emitted[w]) = Status("Stopped", 0)

\* C11 amended: a worker that has taken the stop command at the top of its
\* loop starts no transcription and puts no Text, Error or AudioLevel; it
\* calls stream.stop() and stream.close() (a failure of which is swallowed
\* and leaves the stream unclosed), then puts the final Status, which is its
\* last message, and exits.  A worker the display terminates after the join
\* timeout does none of this.
C11_StopToStopped ==
    /\ [](\A w \in Workers :
            (pc[w] = "exited" /\ Status("Listening", 0) \in Range(emitted[w])) =>
                /\ Last(emitted[w]) = Status("Stopped", 0)
                /\ stream[w] \in {"closed", "unclosed"})
    /\ [][C11_Step]_vars

\* C11 witness: a worker that had put a Text took the stop command, closed
\* its stream and exited with the final Status as its last message.
C11_Witness ==
    \E w \in Workers :
        /\ pc[w] = "exited"
        /\ stream[w] = "closed"
        /\ OfType(emitted[w], "text") # <<>>
        /\ Last(emitted[w]) = Status("Stopped", 0)

\* ------------------------------------------------- the correction engine
DictGet(d, k) == d[CHOOSE i \in DOMAIN d : d[i].k = k].v
DictKeys(d) == {d[i].k : i \in DOMAIN d}
DupKeys(ts) == \E i, j \in DOMAIN ts : i # j /\ ts[i].key = ts[j].key
Targets(t) == <<t.canonical>> \o t.aliases

\* C12 as stated: a dictionary file in which two terms share a key never
\* yields a corrector.
C12_DuplicateKeysRejected ==
    (file.ok /\ DupKeys(file.terms)) => corrector = <<>>

\* the first term, in load order, with x among its canonical and aliases
FirstWith(ts, x) ==
    CHOOSE i \in DOMAIN ts :
        /\ x \in {LowerStr(y) : y \in Range(Targets(ts[i]))}
        /\ \A j \in DOMAIN ts :
              x \in {LowerStr(y) : y \in Range(Targets(ts[j]))} => i <= j

\* C13 as stated: for unique term keys, key_to_canonical has exactly one
\* entry per key, mapping to that term's canonical; every lower-cased
\* canonical and alias is a key of the direct table; and the entry a key got
\* from an earlier term is not overwritten by a later term.
C13_IndexInvariant ==
    (corrector # <<>> /\ ~DupKeys(file.terms)) =>
        LET self == corrector[1]
            ts == self.terms
        IN  /\ Len(self.key_to_canonical) = Len(ts)
            /\ \A i \in DOMAIN ts :
                  DictGet(self.key_to_canonical, ts[i].key) = ts[i].canonical
            /\ \A i \in DOMAIN ts : \A x \in Range(Targets(ts[i])) :
                  /\ LowerStr(x) \in DictKeys(self.direct)
                  /\ DictGet(self.direct, LowerStr(x)) = ts[FirstWith(ts, LowerStr(x))].canonical

\* C14 as stated: correct() applied to the text a correct() call returned
\* yields no Correction record.
C14_Idempotent ==
    \A i, j \in DOMAIN calls :
        (i < j /\ calls[j].text = calls[i].result.text) => calls[j].result.changes = <<>>

IsAlias(ts, k) == \E i \in DOMAIN ts : \E a \in Range(ts[i].aliases) : LowerStr(a) = k
Froms(changes) == [i \in DOMAIN changes |-> changes[i].from]

\* C15 as stated: when the text is an occurrence of an alias AB that contains
\* a shorter alias A, one correct() call records exactly one Correction, from
\* AB to the canonical of AB, and none from A.
C15_LongestAliasFirst ==
    (corrector # <<>>) =>
        LET self == corrector[1]
        IN  \A c \in Range(calls) : \A AB, A \in DictKeys(self.direct) :
               ( /\ IsAlias(self.terms, AB)
                 /\ IsAlias(self.terms, A)
                 /\ Len(A) < Len(AB)
                 /\ Find(AB, A) > 0
                 /\ LowerStr(c.text) = AB )
               => /\ Froms(c.result.changes) = <<AB>>
                  /\ c.result.changes[1].to = DictGet(self.direct, AB)
                  /\ c.result.text = DictGet(self.direct, AB)

SingleToken(text) == text # <<>> /\ \A i \in DOMAIN text : ~IsSpace(text[i])
KeyOccurs(text, k) == k # <<>> /\ Find(LowerStr(text), k) > 0

\* the text of call c is exactly one candidate span of the fuzzy pass: one
\* token of four characters or more, untouched by the direct pass
FuzzyCase(self, c) ==
    /\ SingleToken(c.text)
    /\ Len(c.text) >= 4
    /\ \A k \in DictKeys(self.direct) : ~KeyOccurs(c.text, k)

AllTargets(ts) == UNION {Range(Targets(ts[i])) : i \in DOMAIN ts}
ScoreOf(cand, x) == lev_ratio(LowerStr(cand), LowerStr(x))
SameScore(s, t) == s.num * t.den = t.num * s.den
AtLeast(s, t) == s.num * t.den >= t.num * s.den
IsBest(ts, cand, x) == \A y \in AllTargets(ts) : AtLeast(ScoreOf(cand, x), ScoreOf(cand, y))

\* C16: a candidate span whose best similarity over all canonicals and
\* aliases is equal to or above the configured threshold is replaced by a
\* canonical and recorded with that score; one whose best similarity is
\* below the threshold is returned unchanged with no Correction record.
C16_ThresholdBoundary ==
    (corrector # <<>>) =>
        LET self == corrector[1]
        IN  \A c \in Range(calls) :
               FuzzyCase(self, c) =>
                  IF \E x \in AllTargets(self.terms) :
                        AtLeast(ScoreOf(c.text, x), self.threshold)
                  THEN /\ Len(c.result.changes) = 1
                       /\ c.result.changes[1].from = c.text
                       /\ c.result.changes[1].to = c.result.text
                       /\ c.result.text \in {self.terms[i].canonical : i \in DOMAIN self.terms}
                       /\ \E x \in AllTargets(self.terms) :
                             /\ IsBest(self.terms, c.text, x)
                             /\ SameScore(c.result.changes[1], ScoreOf(c.text, x))
                  ELSE c.result = [text |-> c.text, changes |-> <<>>]

\* C16 witness: a candidate whose best similarity is exactly the configured
\* threshold was replaced.
C16_Witness ==
    /\ corrector # <<>>
    /\ \E c \in Range(calls) :
          /\ FuzzyCase(corrector[1], c)
          /\ c.result.changes # <<>>
          /\ SameScore(c.result.changes[1], corrector[1].threshold)

\* the first term, in load order, one of whose targets has the best score
FirstBestTerm(ts, cand) ==
    CHOOSE i \in DOMAIN ts :
        /\ \E x \in Range(Targets(ts[i])) : IsBest(ts, cand, x)
        /\ \A j \in DOMAIN ts :
              (\E x \in Range(Targets(ts[j])) : IsBest(ts, cand, x)) => i <= j

\* C17: a replaced candidate takes the canonical of the first term, in
\* dictionary load order, that has a target with the best similarity; two
\* correct() calls with the same input on one corrector return the same text
\* and the same Correction sequence.
C17_TieBreak ==
    (corrector # <<>>) =>
        LET self == corrector[1]
        IN  /\ \A c \in Range(calls) :
                  (FuzzyCase(self, c) /\ c.result.changes # <<>>) =>
                      c.result.text = self.terms[FirstBestTerm(self.terms, c.text)].canonical
            /\ \A i, j \in DOMAIN calls :
                  calls[i].text = calls[j].text => calls[i].result = calls[j].result

\* C17 witness: two terms with different canonicals tie for the best
\* similarity, the candidate was replaced, and the call was made twice.
C17_Witness ==
    /\ corrector # <<>>
    /\ Len(calls) = 2
    /\ calls[1].text = calls[2].text
    /\ FuzzyCase(corrector[1], calls[1])
    /\ calls[1].result.changes # <<>>
    /\ \E i, j \in DOMAIN corrector[1].terms :
          /\ i < j
          /\ corrector[1].terms[i].canonical # corrector[1].terms[j].canonical
          /\ IsBest(corrector[1].terms, calls[1].text, corrector[1].terms[i].canonical)
          /\ IsBest(corrector[1].terms, calls[1].text, corrector[1].terms[j].canonical)

Occurrences(text, k) ==
    Cardinality({i \in 1..(Len(text) - Len(k) + 1) :
                    SubSeq(LowerStr(text), i, i + Len(k) - 1) = k})

\* C18 as stated, read generously: when the text contains an alias of a
\* term once (an alias no later term has overwritten in the direct table),
\* contains no other key of the direct table, and no span of the
\* substituted text qualifies for a fuzzy match, correct() returns the text
\* with that occurrence replaced by the term's canonical and every other
\* character unchanged (here: up to the whitespace that split() and join()
\* normalise), with exactly one Correction {alias, canonical, 1.0}.
C18_ExactAlias ==
    (corrector # <<>>) =>
        LET self == corrector[1]
        IN  \A c \in Range(calls) : \A i \in DOMAIN self.terms :
            \A a \in Range(self.terms[i].aliases) :
               LET alias_l == LowerStr(a)
                   canon == self.terms[i].canonical
                   expected == replace_case_insensitive(c.text, alias_l, canon)
               IN  ( /\ Occurrences(c.text, alias_l) = 1
                     /\ DictGet(self.direct, alias_l) = canon
                     /\ \A k \in DictKeys(self.direct) \ {alias_l} : ~KeyOccurs(c.text, k)
                     /\ FuzzyPass(self, Split(expected, <<>>, <<>>), 0, <<>>).changes = <<>> )
                   => /\ c.result.text = Join(<<" ">>, Split(expected, <<>>, <<>>))
                      /\ c.result.changes =
                            <<[from |-> alias_l, to |-> canon, num |-> 1, den |-> 1]>>

\* ---------------------------------------------------------------- C19
RECURSIVE GatedBy(_, _)
\* the chunk ids worker slot w has passed to the gate, in the order of the log
GatedBy(w, log) ==
    IF log = <<>> THEN <<>>
    ELSE (IF Head(log).w = w THEN Head(log).ids ELSE <<>>) \o GatedBy(w, Tail(log))

\* every chunk that was ever appended to the accumulator of w, in the order
\* of the appends: those already concatenated and those still accumulated
Accumulated(w) == GatedBy(w, gate_log) \o Ids(buffer[w])

\* the accumulated chunks followed by the chunks the callback has queued
Pipeline(w) == Accumulated(w) \o Ids(audio_q[w])

\* the worker is in its loop, not stopped, and stays so over the step
Running(w) == stream[w] = "open" /\ pc[w] \in {"loop", "wait", "transcribing", "collect"}

C19_Step ==
    \A w \in Workers :
        (Running(w) /\ Running(w)') =>
            /\ IF audio_q'[w] = audio_q[w] \/ Len(audio_q'[w]) < Len(audio_q[w])
               THEN Pipeline(w)' = Pipeline(w)
               ELSE Pipeline(w)' = Append(Pipeline(w), nchunks')
            /\ nchunks' # nchunks => Pipeline(w)' = Append(Pipeline(w), nchunks')
            /\ IsPrefix(Accumulated(w), Accumulated(w)')

\* C19: no chunk loss under back-pressure. While the worker is running and
\* not stopped, a step never removes a chunk from the sequence "appended to
\* the accumulator, then queued by the callback" and never reorders it; a
\* chunk the callback delivers, whatever the worker is doing, is added at its
\* end; chunks move from the queue to the accumulator at its front only. So
\* every delivered chunk is appended exactly once and in capture order, and
\* the sequence has no chunk twice.
C19_NoChunkLoss ==
    /\ [][C19_Step]_vars
    /\ [](\A w \in Workers : Running(w) =>
            \A i, j \in DOMAIN Pipeline(w) : i < j => Pipeline(w)[i] < Pipeline(w)[j])

\* C19 witness: a chunk was delivered while the worker was behind (the first
\* chunk had gone through the gate into an STT call that has returned) and it
\* is now in the accumulator.
C19_Witness ==
    \E w \in Workers :
        /\ Running(w)
        /\ ok_count[w] + empty_count[w] > 0
        /\ buffer[w] # <<>>
        /\ \E i \in DOMAIN gate_log :
              /\ gate_log[i].w = w /\ gate_log[i].accepted
              /\ \A k \in Range(gate_log[i].ids) : k < buffer[w][1].id

\* ---------------------------------------------------------------- C20
\* C20: display polling robustness. A fault while the display reads the
\* channel or handles a message never escapes a poll step: no poll ends with
\* an exception, so every poll runs to its end and the messages it took after
\* a faulty one are handled in the same tick.
C20_PollNeverRaises == escaped = 0

\* ---------------------------------------------------------------- C21
\* the loop state the fuzzy pass of correct(text) starts in: the tokens of
\* the text the direct pass returns
FuzzyStart(self, text) ==
    LET p1 == DirectPass(SortedByLen(<<>>, self.direct), text, LowerStr(text), <<>>)
    IN  [tokens |-> Split(p1.raw, <<>>, <<>>), i |-> 0, changes |-> p1.changes]

RECURSIVE LoopStates(_, _, _)
\* the loop states of the fuzzy pass from st on, n iterations at most
LoopStates(self, st, n) ==
    IF st.i >= Len(st.tokens) \/ n = 0 THEN <<st>>
    ELSE <<st>> \o LoopStates(self, FuzzyStep(self, st), n - 1)

Window(tokens, i, j) == Join(<<" ">>, SubSeq(tokens, i + 1, j))

\* the window tokens[i:j] qualifies: four characters or more, not a key of
\* the direct table, and some target is at least as similar as the threshold
Qualifies(self, tokens, i, j) ==
    /\ Len(Window(tokens, i, j)) >= 4
    /\ ~DictHas(self.direct, LowerStr(Window(tokens, i, j)))
    /\ \E x \in AllTargets(self.terms) :
          AtLeast(ScoreOf(Window(tokens, i, j), x), self.threshold)

QualifyingEnds(self, st) ==
    {j \in (st.i + 1)..Min(st.i + 3, Len(st.tokens)) : Qualifies(self, st.tokens, st.i, j)}

Max(S) == CHOOSE x \in S : \A y \in S : y <= x

\* one iteration from s to t is greedy: the longest qualifying window at
\* s.i, and no other, is replaced by one canonical and recorded; nothing
\* before s.i changes; the scan moves to the token after the replaced span
Greedy(self, s, t) ==
    /\ t.i = s.i + 1
    /\ SubSeq(t.tokens, 1, s.i) = SubSeq(s.tokens, 1, s.i)
    /\ IF QualifyingEnds(self, s) = {}
       THEN t.tokens = s.tokens /\ t.changes = s.changes
       ELSE LET j == Max(QualifyingEnds(self, s))
            IN  /\ Len(t.tokens) = Len(s.tokens) - (j - s.i) + 1
                /\ t.tokens[s.i + 1] \in {self.terms[k].canonical : k \in DOMAIN self.terms}
                /\ SubSeq(t.tokens, s.i + 2, Len(t.tokens)) = SubSeq(s.tokens, j + 1, Len(s.tokens))
                /\ Len(t.changes) = Len(s.changes) + 1
                /\ SubSeq(t.changes, 1, Len(s.changes)) = s.changes
                /\ t.changes[Len(t.changes)].from = Window(s.tokens, s.i, j)
                /\ t.changes[Len(t.changes)].to = t.tokens[s.i + 1]

\* C21: the fuzzy pass is greedy longest-first, left to right and
\* non-overlapping. In every correct() call made, each iteration of the scan
\* replaces the longest qualifying window that starts at the current token
\* (three tokens before two before one) and no other, leaves every token
\* before the current one as it is, and moves on to the token after the
\* replaced span, so that a token a replacement produced is in no later
\* window; the scan ends within as many iterations as the text has tokens,
\* and what it ends with is what the call returned.
C21_GreedyFuzzyPass ==
    (corrector # <<>>) =>
        LET self == corrector[1]
        IN  \A c \in Range(calls) :
              LET st0 == FuzzyStart(self, c.text)
                  run == LoopStates(self, st0, Len(st0.tokens) + 1)
                  end == run[Len(run)]
              IN  /\ Len(run) <= Len(st0.tokens) + 1
                  /\ end.i >= Len(end.tokens)
                  /\ \A k \in 1..(Len(run) - 1) : Greedy(self, run[k], run[k + 1])
                  /\ c.result = [text |-> Join(<<" ">>, end.tokens), changes |-> end.changes]

\* C21 witness: in a call a two-token and a one-token window at the same
\* token both qualified and the two-token window was replaced, and in a call
\* the scan went on to the tokens after a replaced span.
C21_Witness ==
    /\ corrector # <<>>
    /\ \E c \in Range(calls) :
          LET st0 == FuzzyStart(corrector[1], c.text)
          IN  /\ {1, 2} \subseteq QualifyingEnds(corrector[1], st0)
              /\ Len(c.result.changes) = 1
              /\ c.result.changes[1].from = Window(st0.tokens, 0, 2)
    /\ \E c \in Range(calls) :
          LET st0 == FuzzyStart(corrector[1], c.text)
              run == LoopStates(corrector[1], st0, Len(st0.tokens) + 1)
          IN  /\ Len(run) >= 3
              /\ run[2].changes # run[1].changes
              /\ Len(run[2].tokens) > 1

\* ---------------------------------------------------------------- C22
\* C22: no Text message is lost at the display. A Text that is still unread
\* when the worker is gone and the display has let go of its channel can
\* never be consumed; so, as a property a finite run can refute: whenever a
\* worker is gone and the display no longer holds its channel, the display
\* has handled every Text that worker put, in the order they were put.
C22_NoTextLost ==
    \A w \in Workers :
        (~Alive(w) /\ ui_out_q # w) =>
            OfType(handled[w], "text") = OfType(emitted[w], "text")

\* ---------------------------------------------------------------- C23
RECURSIVE Collapse(_, _)
\* s[i..] without the whitespace that starts s or follows whitespace
Collapse(s, i) ==
    IF i > Len(s) THEN <<>>
    ELSE (IF IsSpace(s[i]) /\ (i = 1 \/ IsSpace(s[i - 1])) THEN <<>> ELSE <<s[i]>>)
         \o Collapse(s, i + 1)

\* whitespace normalisation: runs of whitespace collapsed to one space,
\* leading and trailing whitespace removed
Normalised(s) == RStrip(Collapse(s, 1))

\* C23: text changes only through recorded substitutions. Every correct()
\* call that returned an empty Correction sequence returned its input with
\* the whitespace normalised and every other character as it was.
C23_OnlyRecordedChanges ==
    \A c \in Range(calls) :
        c.result.changes = <<>> => c.result.text = Normalised(c.text)

\* C23 witness: a call with no Correction returned a text that differs from
\* its input: a run of whitespace was collapsed.
C23_Witness ==
    \E c \in Range(calls) :
        /\ c.result.changes = <<>>
        /\ c.result.text # c.text
        /\ \E i \in 2..Len(c.text) : IsSpace(c.text[i]) /\ IsSpace(c.text[i - 1])

\* ---------------------------------------------------------------- C24
StreamOpen == cap_stream \in {"created", "started"}

\* C24: the running flag of AudioCapture matches the stream. After any
\* sequence of start(), stop() and failing start() calls the capture is
\* marked running only if an input stream is open.
C24_RunningMatchesStream == cap_running => StreamOpen

====
